---- MODULE Spec2Model ----
(***************************************************************************)
(* A model of the ETF price monitor's validation and calculation core:    *)
(* ETFValidator (api/services/validator.py), DataLoader                   *)
(* (api/services/data_loader.py), ETFCalculator                           *)
(* (api/services/calculator.py), ETFDataParser                            *)
(* (api/services/etf_parser.py) and the upload handler                    *)
(* create_etf_analysis (api/routers/etf_router.py).                       *)
(*                                                                         *)
(* Numbers.  A float64 is modelled in fixed point: the integer w stands   *)
(* for w / One, so One is 1.0 and a tolerance of 5 is 0.005.  The single  *)
(* non-finite value modelled is NaN, with the IEEE rules Python applies:  *)
(* arithmetic on NaN gives NaN and every ordered comparison with NaN is   *)
(* false.  Binary rounding of sums is not modelled.                       *)
(*                                                                         *)
(* Symbols.  A symbol is a string.  NanName stands for the float NaN that *)
(* pandas puts in the name column for a blank cell: the one symbol value  *)
(* that is not a Python str.                                              *)
(***************************************************************************)
EXTENDS Integers, Sequences, FiniteSets, TLC

(***************************************************************************)
(* Bounds of the model.                                                    *)
(***************************************************************************)
MaxLen == 2
MaxRows == 2
MaxBuilt == 2
MaxReturned == 2
MaxLoads == 3
NThreads == 2

(***************************************************************************)
(* Floats.                                                                 *)
(***************************************************************************)
NaN == -999999
One == 1000

IsNaN(x) == x = NaN
FAdd(a, b) == IF IsNaN(a) \/ IsNaN(b) THEN NaN ELSE a + b
FSub(a, b) == IF IsNaN(a) \/ IsNaN(b) THEN NaN ELSE a - b
FAbs(a) == IF IsNaN(a) THEN NaN ELSE IF a < 0 THEN 0 - a ELSE a
FGt(a, b) == ~IsNaN(a) /\ ~IsNaN(b) /\ a > b
FLt(a, b) == ~IsNaN(a) /\ ~IsNaN(b) /\ a < b

(***************************************************************************)
(* Symbols and their order under Python's sorted().                        *)
(***************************************************************************)
NanName == "nan"
SymbolOrder == <<"A", "B", "C", "D", "DATE", "E", "F", "G", "H", "I", "J", "K", "Z">>
IsStr(s) == s # NanName
Rank(s) == CHOOSE i \in 1..Len(SymbolOrder) : SymbolOrder[i] = s

RECURSIVE InsertSorted(_, _)
InsertSorted(s, x) ==
    IF s = <<>> THEN <<x>>
    ELSE IF Rank(x) < Rank(Head(s)) THEN <<x>> \o s
    ELSE <<Head(s)>> \o InsertSorted(Tail(s), x)

RECURSIVE Sorted(_)
Sorted(s) == IF s = <<>> THEN <<>> ELSE InsertSorted(Sorted(Tail(s)), Head(s))

RECURSIVE SetToSeq(_)
SetToSeq(S) ==
    IF S = {} THEN <<>>
    ELSE LET x == CHOOSE y \in S : TRUE IN <<x>> \o SetToSeq(S \ {x})

Range(s) == {s[i] : i \in 1..Len(s)}
Prefix(s, n) == SubSeq(s, 1, IF Len(s) < n THEN Len(s) ELSE n)

(***************************************************************************)
(* ETFValidator.  A check returns [valid, msg]; msg is the structured     *)
(* content of the message string the code formats, EmptyMsg standing for  *)
(* "".  A check whose message cannot be formatted (str.join over a        *)
(* non-str symbol) raises TypeError: [raised |-> TRUE].                   *)
(***************************************************************************)
EmptyMsg == [check |-> ""]
SampleSize == 10

Passed == [raised |-> FALSE, valid |-> TRUE, msg |-> EmptyMsg]
Failed(m) == [raised |-> FALSE, valid |-> FALSE, msg |-> m]
Raised == [raised |-> TRUE, valid |-> FALSE, msg |-> EmptyMsg]

RECURSIVE SumWeights(_)
SumWeights(cs) ==
    IF cs = <<>> THEN 0 ELSE FAdd(SumWeights(SubSeq(cs, 1, Len(cs) - 1)), cs[Len(cs)].weight)

validate_weights_sum_strict(cs, tol) ==
    LET total_weight == SumWeights(cs)
    IN IF ~IsNaN(total_weight) /\ FAbs(FSub(total_weight, One)) >= tol
       THEN Failed([check |-> "weights_sum", total |-> total_weight, tolerance |-> tol])
       ELSE Passed

validate_weights_sum_one_sided(cs, tol) ==
    LET total_weight == SumWeights(cs)
    IN IF FGt(FSub(total_weight, One), tol)
       THEN Failed([check |-> "weights_sum", total |-> total_weight, tolerance |-> tol])
       ELSE Passed

validate_weights_sum(cs, tol) ==
    LET total_weight == SumWeights(cs)
    IN IF FGt(FAbs(FSub(total_weight, One)), tol)
       THEN Failed([check |-> "weights_sum", total |-> total_weight, tolerance |-> tol])
       ELSE Passed

RangeTag_open_interval(c) ==
    IF ~FGt(c.weight, 0) THEN <<[symbol |-> c.name, weight |-> c.weight, tag |-> "negative"]>>
    ELSE IF ~FLt(c.weight, One)
         THEN <<[symbol |-> c.name, weight |-> c.weight, tag |-> "exceeds 100%"]>>
         ELSE <<>>

RangeTag(c) ==
    IF FLt(c.weight, 0) THEN <<[symbol |-> c.name, weight |-> c.weight, tag |-> "negative"]>>
    ELSE IF FGt(c.weight, One)
         THEN <<[symbol |-> c.name, weight |-> c.weight, tag |-> "exceeds 100%"]>>
         ELSE <<>>

RECURSIVE InvalidWeights(_)
InvalidWeights(cs) ==
    IF cs = <<>> THEN <<>> ELSE RangeTag(Head(cs)) \o InvalidWeights(Tail(cs))

validate_weight_ranges(cs) ==
    LET invalid_weights == InvalidWeights(cs)
    IN IF invalid_weights # <<>>
       THEN Failed([check |-> "weight_ranges", invalid |-> invalid_weights])
       ELSE Passed

RECURSIVE MissingSymbols(_, _)
MissingSymbols(cs, avail) ==
    IF cs = <<>> THEN <<>>
    ELSE (IF Head(cs).name \notin Range(avail) THEN <<Head(cs).name>> ELSE <<>>)
         \o MissingSymbols(Tail(cs), avail)

(* validate_symbols_exist returns a third value: the missing symbols.       *)
WithMissing(r, missing_symbols) ==
    [raised |-> r.raised, valid |-> r.valid, msg |-> r.msg, missing |-> missing_symbols]

validate_symbols_exist_unsorted_sample(cs, avail) ==
    LET missing_symbols == MissingSymbols(cs, avail)
    IN IF missing_symbols # <<>>
       THEN WithMissing(Failed([check |-> "symbols_exist", missing |-> missing_symbols,
                                sample |-> Prefix(avail, SampleSize)]),
                        missing_symbols)
       ELSE WithMissing(Passed, <<>>)

validate_symbols_exist(cs, avail) ==
    LET missing_symbols == MissingSymbols(cs, avail)
    IN IF missing_symbols # <<>>
       THEN IF \E i \in 1..Len(missing_symbols) : ~IsStr(missing_symbols[i])
            THEN WithMissing(Raised, <<>>)
            ELSE WithMissing(Failed([check |-> "symbols_exist", missing |-> missing_symbols,
                                     sample |-> Prefix(Sorted(avail), SampleSize)]),
                             missing_symbols)
       ELSE WithMissing(Passed, <<>>)

validate_non_empty_accept_all(cs) == Passed

validate_non_empty(cs) ==
    IF Len(cs) = 0 THEN Failed([check |-> "non_empty"]) ELSE Passed

DupScan_all_seen(symbols, seen, duplicates) == {symbols[i] : i \in 1..Len(symbols)}

RECURSIVE DupScan(_, _, _)
DupScan(symbols, seen, duplicates) ==
    IF symbols = <<>> THEN duplicates
    ELSE DupScan(Tail(symbols), seen \cup {Head(symbols)},
                 IF Head(symbols) \in seen THEN duplicates \cup {Head(symbols)}
                 ELSE duplicates)

validate_no_duplicates(cs) ==
    LET symbols == [i \in 1..Len(cs) |-> cs[i].name]
        duplicates == DupScan(symbols, {}, {})
    IN IF duplicates # {}
       THEN IF \E d \in duplicates : ~IsStr(d)
            THEN Raised
            ELSE Failed([check |-> "no_duplicates", dup_list |-> Sorted(SetToSeq(duplicates))])
       ELSE Passed

Collect(errors, r) == IF r.valid THEN errors ELSE Append(errors, r.msg)

(* The checks validate_all has called when it returns or raises.            *)
AllChecks == <<"non_empty", "no_duplicates", "weight_ranges", "weights_sum", "symbols_exist">>

validate_all_first_only(cs, avail, tol) ==
    LET r1 == validate_non_empty(cs)
        r2 == validate_no_duplicates(cs)
        r3 == validate_weight_ranges(cs)
        r4 == validate_weights_sum(cs, tol)
        r5 == validate_symbols_exist(cs, avail)
    IN IF ~r1.valid
       THEN [raised |-> FALSE, ok |-> FALSE, errors |-> <<r1.msg>>, ran |-> Prefix(AllChecks, 1)]
       ELSE IF r2.raised
       THEN [raised |-> TRUE, ok |-> FALSE, errors |-> <<>>, ran |-> Prefix(AllChecks, 2)]
       ELSE IF r5.raised
       THEN [raised |-> TRUE, ok |-> FALSE, errors |-> <<>>, ran |-> AllChecks]
       ELSE LET errors == Collect(Collect(Collect(Collect(<<>>, r2), r3), r4), r5)
            IN [raised |-> FALSE, ok |-> Len(errors) = 0, errors |-> Prefix(errors, 1),
                ran |-> AllChecks]

validate_all_no_early_return(cs, avail, tol) ==
    LET r1 == validate_non_empty(cs)
        r2 == validate_no_duplicates(cs)
        r3 == validate_weight_ranges(cs)
        r4 == validate_weights_sum(cs, tol)
        r5 == validate_symbols_exist(cs, avail)
    IN IF r2.raised
       THEN [raised |-> TRUE, ok |-> FALSE, errors |-> <<>>, ran |-> Prefix(AllChecks, 2)]
       ELSE IF r5.raised
       THEN [raised |-> TRUE, ok |-> FALSE, errors |-> <<>>, ran |-> AllChecks]
       ELSE LET errors == Collect(Collect(Collect(Collect(Collect(<<>>, r1), r2), r3), r4), r5)
            IN [raised |-> FALSE, ok |-> Len(errors) = 0, errors |-> errors, ran |-> AllChecks]

validate_all(cs, avail, tol) ==
    LET r1 == validate_non_empty(cs)
        r2 == validate_no_duplicates(cs)
        r3 == validate_weight_ranges(cs)
        r4 == validate_weights_sum(cs, tol)
        r5 == validate_symbols_exist(cs, avail)
    IN IF ~r1.valid
       THEN [raised |-> FALSE, ok |-> FALSE, errors |-> <<r1.msg>>, ran |-> Prefix(AllChecks, 1)]
       ELSE IF r2.raised
       THEN [raised |-> TRUE, ok |-> FALSE, errors |-> <<>>, ran |-> Prefix(AllChecks, 2)]
       ELSE IF r5.raised
       THEN [raised |-> TRUE, ok |-> FALSE, errors |-> <<>>, ran |-> AllChecks]
       ELSE LET errors == Collect(Collect(Collect(Collect(<<>>, r2), r3), r4), r5)
            IN [raised |-> FALSE, ok |-> Len(errors) = 0, errors |-> errors, ran |-> AllChecks]

(***************************************************************************)
(* State.                                                                  *)
(***************************************************************************)
VARIABLES
    constituents,       \* the constituent list an operation is called with
    available_symbols,  \* the list of known symbols given to the validator
    tolerance,          \* ETFValidator.tolerance
    result,             \* the last operation and what it returned
    source,             \* the price file on disk
    instance,           \* DataLoader._instance: an object id, 0 for None
    prices_df,          \* per DataLoader object, its _prices_df: a heap reference, 0 for None
    heap,               \* the DataFrame objects, by reference
    loads,              \* load_prices executions: started and completed
    built,              \* the objects the DataLoader() calls returned, in call order
    returned,           \* the references get_prices() returned, in call order
    threads,            \* per concurrent caller: where it is and the locals it holds
    upload,             \* the uploaded file, as pandas reads it
    pc,                 \* where the upload handler is
    validation,         \* what validate_all returned in the handler, and for which list
    calls,              \* the calculator operations the handler invoked, in order
    config,             \* ETF_WEIGHT_TOLERANCE as the environment configures it
    response            \* the handler's HTTP response

valVars == <<constituents, available_symbols, tolerance>>
dlVars == <<source, instance, prices_df, heap, loads, built, returned>>
upVars == <<upload, pc, validation, calls, response, config>>
vars == <<constituents, available_symbols, tolerance, result,
          source, instance, prices_df, heap, loads, built, returned, threads,
          upload, pc, validation, calls, response, config>>

NoResult == [op |-> "none"]
SeqsUpTo(S, n) == UNION {[1..k -> S] : k \in 0..n}

(***************************************************************************)
(* The price table.  A DataFrame is [columns, parsed, rows]: its column    *)
(* names, whether the DATE column holds datetimes (pd.to_datetime has run) *)
(* or the file's strings, and its rows in index order.  A row gives the    *)
(* value of the date column and the price of each symbol column.           *)
(***************************************************************************)
DateColumn == "DATE"
NoDf == 0

Dates == {1, 2}
PricesA == {100, 104}
PricesB == {50}
Rows == [DATE : Dates, A : PricesA, B : PricesB]

IsAscending(rows) == \A i \in 1..(Len(rows) - 1) : rows[i].DATE <= rows[i + 1].DATE

(* sort_values('DATE') uses the default quicksort, which is not a stable    *)
(* sort: rows of equal date may come out in any order.                      *)
sort_values(rows) ==
    {p \in {[i \in 1..Len(rows) |-> rows[f[i]]] : f \in Permutations(1..Len(rows))} :
        IsAscending(p)}

read_csv(src) == [columns |-> src.columns, parsed |-> FALSE, rows |-> src.rows]

(* DataLoader.load_prices on a heap h and a price file src: the set of its  *)
(* outcomes [heap, assigned, df, raised].  assigned says whether            *)
(* self._prices_df was assigned before the method returned or raised, and   *)
(* df is the reference it was last assigned.                                *)
load_prices(h, src) ==
    IF ~src.exists
    THEN {[heap |-> h, assigned |-> FALSE, df |-> NoDf, raised |-> TRUE]}
    ELSE LET h1 == Append(h, read_csv(src))
             r1 == Len(h1)
         IN IF DateColumn \notin Range(src.columns) \/ ~src.dates_ok
            THEN {[heap |-> h1, assigned |-> TRUE, df |-> r1, raised |-> TRUE]}
            ELSE LET h2 == [h1 EXCEPT ![r1].parsed = TRUE]
                 IN {[heap |-> Append(h2, [h2[r1] EXCEPT !.rows = p]),
                      assigned |-> TRUE, df |-> r1 + 1, raised |-> FALSE] :
                        p \in sort_values(src.rows)}

(* DataLoader.__new__: the singleton check on the class attribute.          *)
DataLoader_new(inst, dfs) ==
    IF inst = 0
    THEN [instance |-> Len(dfs) + 1, prices_df |-> Append(dfs, NoDf)]
    ELSE [instance |-> inst, prices_df |-> dfs]

(* The guard of __init__, get_prices and get_available_symbols.             *)
always_load(df) == TRUE
needs_load(df) == df = NoDf

(* DataFrame.copy(): a new object with the same content.                    *)
df_alias(h, r) == [heap |-> h, ref |-> r]
df_copy(h, r) == [heap |-> Append(h, h[r]), ref |-> Len(h) + 1]

symbol_columns(df) == SelectSeq(df.columns, LAMBDA col : col # DateColumn)

(* What a caller may do to a DataFrame it was given.                        *)
Mutations == {"set_column", "drop_rows"}
mutate(df, m) ==
    IF m = "set_column"
    THEN [df EXCEPT !.rows = [i \in 1..Len(df.rows) |-> [df.rows[i] EXCEPT !.A = 999]]]
    ELSE [df EXCEPT !.rows = <<>>]

(***************************************************************************)
(* ETFCalculator.  Each operation works on the copy get_prices() gave it.  *)
(* A price is an integer, weight * price is in the weights' fixed point.   *)
(* 'symbol in prices_df.columns' is true of the date column's name too:    *)
(* multiplying the datetime column by a weight, or float() of a Timestamp, *)
(* raises TypeError.                                                       *)
(***************************************************************************)
DefaultTopN == 5

FMul(w, price) == IF IsNaN(w) \/ IsNaN(price) THEN NaN ELSE w * price

(* str(e) of the exceptions: prices_df[['DATE']] without that column,       *)
(* iloc[-1] on a table without rows, the datetime column times a float,    *)
(* float() of a Timestamp.                                                 *)
KeyErrorText == "None of [Index(['DATE'], dtype='object')] are in the [columns]"
IndexErrorText == "single positional indexer is out-of-bounds"
MulTypeErrorText == "unsupported operand type(s) for *: 'DatetimeArray' and 'float'"
FloatTypeErrorText == "float() argument must be a string or a real number, not 'Timestamp'"

CalcRaised(e) == [raised |-> TRUE, error |-> e]

in_columns(symbol, df) == symbol \in Range(df.columns)

RECURSIVE WeightedSum(_, _, _)
WeightedSum(cs, row, df) ==
    IF cs = <<>> THEN 0
    ELSE LET c == cs[Len(cs)]
             rest == WeightedSum(SubSeq(cs, 1, Len(cs) - 1), row, df)
         IN IF in_columns(c.name, df) THEN FAdd(rest, FMul(c.weight, row[c.name])) ELSE rest

calculate_etf_prices(df, cs) ==
    IF ~in_columns(DateColumn, df) THEN CalcRaised(KeyErrorText)
    ELSE IF \E i \in 1..Len(cs) : cs[i].name = DateColumn THEN CalcRaised(MulTypeErrorText)
    ELSE [raised |-> FALSE,
          points |-> [k \in 1..Len(df.rows) |->
                        [DATE |-> df.rows[k].DATE,
                         etf_price |-> WeightedSum(cs, df.rows[k], df)]]]

latest_price(symbol, df) ==
    IF in_columns(symbol, df) THEN df.rows[Len(df.rows)][symbol] ELSE 0

get_latest_prices(df, cs) ==
    IF Len(df.rows) = 0 THEN CalcRaised(IndexErrorText)
    ELSE IF \E i \in 1..Len(cs) : cs[i].name = DateColumn /\ in_columns(DateColumn, df)
    THEN CalcRaised(FloatTypeErrorText)
    ELSE [raised |-> FALSE,
          entries |-> [i \in 1..Len(cs) |->
                         [symbol |-> cs[i].name, weight |-> cs[i].weight,
                          latest_price |-> latest_price(cs[i].name, df)]]]

(* list.sort(key=holding_value, reverse=True) as CPython runs it on a list  *)
(* shorter than 64 entries: the list is reversed, sorted ascending with    *)
(* '<' on the keys alone (the initial run is found and, if it descends     *)
(* strictly, reversed; every later entry is placed by binary insertion     *)
(* after the entries it is not less than), and reversed again.  On keys    *)
(* that '<' orders totally this is the stable descending sort; a NaN key   *)
(* is never less and never greater than another key.                       *)
Reverse(s) == [i \in 1..Len(s) |-> s[Len(s) + 1 - i]]

KeyLt(x, y) == FLt(x.holding_value, y.holding_value)

RECURSIVE count_run(_, _, _)
count_run(a, n, descending) ==
    IF n < Len(a) /\ (IF descending THEN KeyLt(a[n + 1], a[n]) ELSE ~KeyLt(a[n + 1], a[n]))
    THEN count_run(a, n + 1, descending)
    ELSE n

RECURSIVE BinarySearch(_, _, _, _)
BinarySearch(a, pivot, l, r) ==
    IF l < r
    THEN LET p == l + ((r - l) \div 2)
         IN IF KeyLt(pivot, a[p + 1]) THEN BinarySearch(a, pivot, l, p)
            ELSE BinarySearch(a, pivot, p + 1, r)
    ELSE l

RECURSIVE binarysort(_, _)
binarysort(a, start) ==
    IF start >= Len(a) THEN a
    ELSE LET pivot == a[start + 1]
             l == BinarySearch(a, pivot, 0, start)
         IN binarysort(SubSeq(a, 1, l) \o <<pivot>> \o SubSeq(a, l + 1, start)
                           \o SubSeq(a, start + 2, Len(a)),
                       start + 1)

list_sort(a) ==
    IF Len(a) < 2 THEN a
    ELSE LET descending == KeyLt(a[2], a[1])
             n == count_run(a, 2, descending)
             run == IF descending THEN Reverse(SubSeq(a, 1, n)) \o SubSeq(a, n + 1, Len(a))
                    ELSE a
         IN binarysort(run, n)

SortDescending_reverse_after(s) == Reverse(list_sort(s))
SortDescending(s) == Reverse(list_sort(Reverse(s)))

get_top_holdings(df, cs, top_n) ==
    IF Len(df.rows) = 0 THEN CalcRaised(IndexErrorText)
    ELSE IF \E i \in 1..Len(cs) : cs[i].name = DateColumn /\ in_columns(DateColumn, df)
    THEN CalcRaised(FloatTypeErrorText)
    ELSE LET holdings == [i \in 1..Len(cs) |->
                            [symbol |-> cs[i].name, weight |-> cs[i].weight,
                             latest_price |-> latest_price(cs[i].name, df),
                             holding_value |-> FMul(cs[i].weight, latest_price(cs[i].name, df))]]
         IN [raised |-> FALSE, entries |-> Prefix(SortDescending(holdings), top_n)]

(* The caller's list when get_top_holdings returns or raises: lines 101-117 *)
(* append the entries to a new list, holdings, and line 120 sorts that     *)
(* list; the argument is only read.                                        *)
argument_sorted_in_place(df, cs) ==
    LET out == get_top_holdings(df, cs, Len(cs))
    IN IF out.raised THEN cs
       ELSE [i \in 1..Len(cs) |-> [name |-> out.entries[i].symbol,
                                   weight |-> out.entries[i].weight]]

argument_after_get_top_holdings(df, cs) == cs

(***************************************************************************)
(* SpecLoader: one thread of one process constructs DataLoader objects     *)
(* (directly or inside ETFCalculator()), calls get_prices() and            *)
(* get_available_symbols() on the objects it was given, and mutates the    *)
(* tables it got back.                                                     *)
(***************************************************************************)
Sources ==
    {[exists |-> e, columns |-> c, dates_ok |-> d, rows |-> r] :
        e \in BOOLEAN,
        c \in {<<"DATE", "A", "B">>, <<"Date", "A", "B">>},
        d \in BOOLEAN,
        r \in SeqsUpTo(Rows, MaxRows)}

NoSource == [exists |-> FALSE, columns |-> <<>>, dates_ok |-> FALSE, rows |-> <<>>]

LoaderIdle ==
    /\ source = NoSource
    /\ instance = 0
    /\ prices_df = <<>>
    /\ heap = <<>>
    /\ loads = [started |-> 0, completed |-> 0]
    /\ built = <<>>
    /\ returned = <<>>
    /\ threads = <<>>

ValidatorIdle ==
    /\ constituents = <<>>
    /\ available_symbols = <<>>
    /\ tolerance = 0

NoUpload == [parses |-> FALSE, columns |-> <<>>, rows |-> <<>>]
NoValidation == [done |-> FALSE]
NoResponse == [status |-> 0]

DefaultTolerance == 5

UploadIdle ==
    /\ upload = NoUpload
    /\ config = DefaultTolerance
    /\ pc = "idle"
    /\ validation = NoValidation
    /\ calls = <<>>
    /\ response = NoResponse

InitLoader ==
    /\ source \in Sources
    /\ instance = 0
    /\ prices_df = <<>>
    /\ heap = <<>>
    /\ loads = [started |-> 0, completed |-> 0]
    /\ built = <<>>
    /\ returned = <<>>
    /\ result = NoResult
    /\ threads = <<>>
    /\ ValidatorIdle
    /\ UploadIdle

Count(l, o) == [started |-> l.started + 1,
                completed |-> l.completed + (IF o.raised THEN 0 ELSE 1)]

(* DataLoader(), also as called by ETFCalculator.__init__: __new__, then    *)
(* __init__ on the object __new__ returned.                                 *)
Construct(who) ==
    /\ Len(built) < MaxBuilt
    /\ LET n == DataLoader_new(instance, prices_df)
           self == n.instance
       IN /\ instance' = self
          /\ IF needs_load(n.prices_df[self])
             THEN \E o \in load_prices(heap, source) :
                    /\ loads.started < MaxLoads
                    /\ heap' = o.heap
                    /\ prices_df' = IF o.assigned THEN [n.prices_df EXCEPT ![self] = o.df]
                                    ELSE n.prices_df
                    /\ loads' = Count(loads, o)
                    /\ built' = IF o.raised THEN built ELSE Append(built, self)
                    /\ result' = [op |-> who, raised |-> o.raised]
             ELSE /\ prices_df' = n.prices_df
                  /\ built' = Append(built, self)
                  /\ result' = [op |-> who, raised |-> FALSE]
                  /\ UNCHANGED <<heap, loads>>
    /\ UNCHANGED <<valVars, source, returned, threads, upVars>>

GetPrices(self) ==
    /\ Len(returned) < MaxReturned
    /\ IF needs_load(prices_df[self])
       THEN \E o \in load_prices(heap, source) :
                    /\ loads.started < MaxLoads
              /\ prices_df' = IF o.assigned THEN [prices_df EXCEPT ![self] = o.df] ELSE prices_df
              /\ loads' = Count(loads, o)
              /\ IF o.raised
                 THEN /\ heap' = o.heap
                      /\ returned' = returned
                      /\ result' = [op |-> "get_prices", raised |-> TRUE]
                 ELSE LET c == df_copy(o.heap, o.df)
                      IN /\ heap' = c.heap
                         /\ returned' = Append(returned, c.ref)
                         /\ result' = [op |-> "get_prices", raised |-> FALSE, ref |-> c.ref]
       ELSE LET c == df_copy(heap, prices_df[self])
            IN /\ heap' = c.heap
               /\ returned' = Append(returned, c.ref)
               /\ result' = [op |-> "get_prices", raised |-> FALSE, ref |-> c.ref]
               /\ UNCHANGED <<prices_df, loads>>
    /\ UNCHANGED <<valVars, source, instance, built, threads, upVars>>

GetAvailableSymbols(self) ==
    /\ result.op # "get_available_symbols"
    /\ IF needs_load(prices_df[self])
       THEN \E o \in load_prices(heap, source) :
                    /\ loads.started < MaxLoads
              /\ heap' = o.heap
              /\ prices_df' = IF o.assigned THEN [prices_df EXCEPT ![self] = o.df] ELSE prices_df
              /\ loads' = Count(loads, o)
              /\ result' = IF o.raised
                           THEN [op |-> "get_available_symbols", raised |-> TRUE]
                           ELSE [op |-> "get_available_symbols", raised |-> FALSE,
                                 symbols |-> symbol_columns(o.heap[o.df])]
       ELSE /\ result' = [op |-> "get_available_symbols", raised |-> FALSE,
                          symbols |-> symbol_columns(heap[prices_df[self]])]
            /\ UNCHANGED <<heap, prices_df, loads>>
    /\ UNCHANGED <<valVars, source, instance, built, returned, threads, upVars>>

Mutate(i, m) ==
    /\ heap' = [heap EXCEPT ![returned[i]] = mutate(@, m)]
    /\ heap' # heap
    /\ result' = [op |-> "mutate", index |-> i]
    /\ UNCHANGED <<valVars, source, instance, prices_df, loads, built, returned, threads, upVars>>

NextLoader ==
    \/ \E who \in {"DataLoader", "ETFCalculator"} : Construct(who)
    \/ \E self \in Range(built) : GetPrices(self)
    \/ \E self \in Range(built) : GetAvailableSymbols(self)
    \/ \E i \in 1..Len(returned), m \in Mutations : Mutate(i, m)

SpecLoader == InitLoader /\ [][NextLoader]_vars

CacheRef == IF instance = 0 THEN NoDf ELSE prices_df[instance]
Loadable(src) == src.exists /\ DateColumn \in Range(src.columns) /\ src.dates_ok

\* C5: after any sequence of get_prices() calls and mutations of the tables
\* they returned, the cached table is unchanged: once set its content never
\* changes, each get_prices() returns a table equal to it, and a step that
\* changes one returned table changes no other returned table.
C5_SnapshotsAreIsolated ==
    [][/\ CacheRef # NoDf => (CacheRef' # NoDf /\ heap'[CacheRef'] = heap[CacheRef])
       /\ Len(returned') > Len(returned) =>
              heap'[returned'[Len(returned')]] = heap'[CacheRef']
       /\ \A i, j \in 1..Len(returned) :
              (i # j /\ heap'[returned[i]] # heap[returned[i]]) =>
                  heap'[returned[j]] = heap[returned[j]]]_vars

C5_Witness_FreshCopyAfterMutation ==
    /\ loads.completed = 1
    /\ Len(returned) = 2
    /\ result.op = "get_prices"
    /\ heap[returned[1]] # heap[CacheRef]
    /\ heap[returned[2]] = heap[CacheRef]
    /\ Len(heap[CacheRef].rows) > 0

\* C6: in a sequential run with a loadable price source, over every sequence
\* of DataLoader() constructions (ETFCalculator's included), get_prices() and
\* get_available_symbols() calls, load_prices executes exactly once and every
\* construction returns the same DataLoader instance.
C6_LoadedExactlyOnce ==
    Loadable(source) =>
        /\ loads.started <= 1
        /\ result # NoResult => (loads.started = 1 /\ loads.completed = 1)
        /\ Len(prices_df) <= 1
        /\ \A i \in 1..Len(built) : built[i] = built[1]

C6_Witness_SecondConstructionNoReload ==
    /\ Loadable(source)
    /\ Len(built) = 2
    /\ Len(returned) > 0
    /\ result.op = "ETFCalculator"
    /\ loads.started = 1

\* C8: if load_prices fails, the cache is left unloaded: no get_prices() or
\* get_available_symbols() call returns table data until a load has
\* completed successfully (each such call raises instead).
C8_NoDataBeforeSuccessfulLoad ==
    loads.completed = 0 =>
        /\ returned = <<>>
        /\ result.op \in {"get_prices", "get_available_symbols"} => result.raised

(***************************************************************************)
(* SpecConcurrent: NThreads callers in one process, each constructing      *)
(* DataLoader() and then calling get_prices() or get_available_symbols()   *)
(* on the object it got, interleaved statement by statement.  The code     *)
(* takes no lock, so a thread switch may fall between any two statements.  *)
(***************************************************************************)
Threads == 1..NThreads

UnsortedRows == <<[DATE |-> 2, A |-> 104, B |-> 50], [DATE |-> 1, A |-> 100, B |-> 50]>>
ConcurrentSources == {s \in Sources : s.rows = UnsortedRows}

InitConcurrent ==
    /\ source \in ConcurrentSources
    /\ instance = 0
    /\ prices_df = <<>>
    /\ heap = <<>>
    /\ loads = [started |-> 0, completed |-> 0]
    /\ built = <<>>
    /\ returned = <<>>
    /\ result = NoResult
    /\ threads = [t \in Threads |-> [pc |-> "new_check", self |-> 0, ret |-> "constructed"]]
    /\ ValidatorIdle
    /\ UploadIdle

At(t, label) == threads[t].pc = label
Goto(t, label) == threads' = [threads EXCEPT ![t].pc = label]

\* data_loader.py line 22: if cls._instance is None
NewCheck(t) ==
    /\ At(t, "new_check")
    /\ Goto(t, IF instance = 0 THEN "new_create" ELSE "new_return")
    /\ UNCHANGED <<valVars, dlVars, result, upVars>>

\* line 23: cls._instance = super().__new__(cls)
NewCreate(t) ==
    /\ At(t, "new_create")
    /\ instance' = Len(prices_df) + 1
    /\ prices_df' = Append(prices_df, NoDf)
    /\ Goto(t, "new_return")
    /\ UNCHANGED <<valVars, source, heap, loads, built, returned, result, upVars>>

\* line 24: return cls._instance
NewReturn(t) ==
    /\ At(t, "new_return")
    /\ threads' = [threads EXCEPT ![t].pc = "init_check", ![t].self = instance]
    /\ UNCHANGED <<valVars, dlVars, result, upVars>>

\* line 28: if self._prices_df is None
InitCheck(t) ==
    /\ At(t, "init_check")
    /\ Goto(t, IF needs_load(prices_df[threads[t].self]) THEN "load_read" ELSE "constructed")
    /\ UNCHANGED <<valVars, dlVars, result, upVars>>

\* line 41: self._prices_df = pd.read_csv(prices_path)
LoadRead(t) ==
    /\ At(t, "load_read")
    /\ loads' = [loads EXCEPT !.started = @ + 1]
    /\ IF ~source.exists
       THEN /\ Goto(t, "raised")
            /\ UNCHANGED <<heap, prices_df>>
       ELSE /\ heap' = Append(heap, read_csv(source))
            /\ prices_df' = [prices_df EXCEPT ![threads[t].self] = Len(heap) + 1]
            /\ Goto(t, "load_parse")
    /\ UNCHANGED <<valVars, source, instance, built, returned, result, upVars>>

\* line 42: self._prices_df['DATE'] = pd.to_datetime(self._prices_df['DATE'])
LoadParse(t) ==
    /\ At(t, "load_parse")
    /\ LET df == prices_df[threads[t].self]
       IN IF DateColumn \notin Range(heap[df].columns) \/ ~source.dates_ok
          THEN /\ Goto(t, "raised")
               /\ UNCHANGED heap
          ELSE /\ heap' = [heap EXCEPT ![df].parsed = TRUE]
               /\ Goto(t, "load_sort")
    /\ UNCHANGED <<valVars, source, instance, prices_df, loads, built, returned, result, upVars>>

\* line 45: self._prices_df = self._prices_df.sort_values('DATE').reset_index(drop=True)
LoadSort(t) ==
    /\ At(t, "load_sort")
    /\ LET df == prices_df[threads[t].self]
       IN \E p \in sort_values(heap[df].rows) :
            /\ heap' = Append(heap, [heap[df] EXCEPT !.rows = p])
            /\ prices_df' = [prices_df EXCEPT ![threads[t].self] = Len(heap) + 1]
    /\ loads' = [loads EXCEPT !.completed = @ + 1]
    /\ Goto(t, threads[t].ret)
    /\ UNCHANGED <<valVars, source, instance, built, returned, result, upVars>>

\* DataLoader() has returned the object to its caller
Constructed(t) ==
    /\ At(t, "constructed")
    /\ built' = Append(built, threads[t].self)
    /\ \E next \in {"gp_check", "gas_check"} : Goto(t, next)
    /\ UNCHANGED <<valVars, source, instance, prices_df, heap, loads, returned, result, upVars>>

\* line 57: if self._prices_df is None
GpCheck(t) ==
    /\ At(t, "gp_check")
    /\ threads' = [threads EXCEPT
                     ![t].pc = IF needs_load(prices_df[threads[t].self])
                               THEN "load_read" ELSE "gp_copy",
                     ![t].ret = "gp_copy"]
    /\ UNCHANGED <<valVars, dlVars, result, upVars>>

\* line 59: return self._prices_df.copy()
GpCopy(t) ==
    /\ At(t, "gp_copy")
    /\ LET c == df_copy(heap, prices_df[threads[t].self])
       IN /\ heap' = c.heap
          /\ returned' = Append(returned, c.ref)
          /\ result' = [op |-> "get_prices", raised |-> FALSE, ref |-> c.ref]
    /\ Goto(t, "done")
    /\ UNCHANGED <<valVars, source, instance, prices_df, loads, built, upVars>>

\* line 68: if self._prices_df is None
GasCheck(t) ==
    /\ At(t, "gas_check")
    /\ threads' = [threads EXCEPT
                     ![t].pc = IF needs_load(prices_df[threads[t].self])
                               THEN "load_read" ELSE "gas_return",
                     ![t].ret = "gas_return"]
    /\ UNCHANGED <<valVars, dlVars, result, upVars>>

\* line 70: return [col for col in self._prices_df.columns if col != 'DATE']
GasReturn(t) ==
    /\ At(t, "gas_return")
    /\ result' = [op |-> "get_available_symbols", raised |-> FALSE,
                  df |-> prices_df[threads[t].self],
                  symbols |-> symbol_columns(heap[prices_df[threads[t].self]])]
    /\ Goto(t, "done")
    /\ UNCHANGED <<valVars, dlVars, upVars>>

NextConcurrent ==
    \E t \in Threads :
        \/ NewCheck(t)
        \/ NewCreate(t)
        \/ NewReturn(t)
        \/ InitCheck(t)
        \/ LoadRead(t)
        \/ LoadParse(t)
        \/ LoadSort(t)
        \/ Constructed(t)
        \/ GpCheck(t)
        \/ GpCopy(t)
        \/ GasCheck(t)
        \/ GasReturn(t)

SpecConcurrent == InitConcurrent /\ [][NextConcurrent]_vars

\* C7: when two or more callers perform the first access concurrently,
\* load_prices executes at most once in total and at most one DataLoader
\* instance is created, under every interleaving.
C7_AtMostOneLoadAndInstance ==
    /\ loads.started <= 1
    /\ Len(prices_df) <= 1

(* A table whose load has completed: dates parsed, rows ascending by date. *)
FullyLoaded(df) == df.parsed /\ IsAscending(df.rows)

\* C21: while the first load is in progress, no concurrent get_prices() or
\* get_available_symbols() call returns data taken from a table whose load
\* has not completed (dates not parsed, or rows not sorted ascending by
\* date), under every interleaving.
C21_OnlyFullyLoadedDataReturned ==
    Loadable(source) =>
        /\ \A i \in 1..Len(returned) : FullyLoaded(heap[returned[i]])
        /\ result.op = "get_available_symbols" => FullyLoaded(heap[result.df])

(***************************************************************************)
(* SpecCalculator: one ETFCalculator over a DataLoader whose load has      *)
(* completed, called on typed constituent lists.  The cached table         *)
(* satisfies the PriceTable invariant: a DATE column of parsed dates, rows *)
(* ascending by date.                                                      *)
(***************************************************************************)
CalculatorSymbols == {"A", "B", "Z", DateColumn}
CalculatorWeights == {NaN, 300, 700}
(* Longer lists of one known symbol: the orders of three and more holding   *)
(* values, NaN among them.                                                  *)
OrderingInputs == [1..(MaxLen + 1) -> [name : {"A"}, weight : CalculatorWeights]]
CalculatorInputs ==
    SeqsUpTo([name : CalculatorSymbols, weight : CalculatorWeights], MaxLen)
        \cup OrderingInputs

LoadedTables ==
    {[columns |-> <<"DATE", "A", "B">>, parsed |-> TRUE, rows |-> r] :
        r \in {q \in SeqsUpTo(Rows, MaxRows) : IsAscending(q)}}

LoaderLoadedWith(df) ==
    /\ source \in {src \in Sources : /\ src.exists /\ src.dates_ok
                                     /\ src.columns = df.columns
                                     /\ df.rows \in sort_values(src.rows)}
    /\ instance = 1
    /\ prices_df = <<1>>
    /\ heap = <<df>>
    /\ loads = [started |-> 1, completed |-> 1]
    /\ built = <<1, 1>>
    /\ returned = <<>>
    /\ threads = <<>>

InitCalculator ==
    /\ \E df \in LoadedTables : LoaderLoadedWith(df)
    /\ constituents \in CalculatorInputs
    /\ available_symbols = <<>>
    /\ tolerance = 0
    /\ result = NoResult
    /\ UploadIdle

CallCalculateEtfPrices ==
    /\ result = NoResult
    /\ LET c == df_copy(heap, prices_df[instance])
       IN /\ heap' = c.heap
          /\ result' = [op |-> "calculate_etf_prices", df |-> c.ref,
                        out |-> calculate_etf_prices(c.heap[c.ref], constituents)]
    /\ UNCHANGED <<valVars, source, instance, prices_df, loads, built, returned, threads, upVars>>

CallGetLatestPrices ==
    /\ result = NoResult
    /\ LET c == df_copy(heap, prices_df[instance])
       IN /\ heap' = c.heap
          /\ result' = [op |-> "get_latest_prices", df |-> c.ref,
                        out |-> get_latest_prices(c.heap[c.ref], constituents)]
    /\ UNCHANGED <<valVars, source, instance, prices_df, loads, built, returned, threads, upVars>>

CallGetTopHoldings ==
    /\ result = NoResult
    /\ \E top_n \in 0..(MaxLen + 1) \cup {DefaultTopN} :
         LET c == df_copy(heap, prices_df[instance])
         IN /\ heap' = c.heap
            /\ result' = [op |-> "get_top_holdings", df |-> c.ref, top_n |-> top_n,
                          out |-> get_top_holdings(c.heap[c.ref], constituents, top_n)]
            /\ constituents' = argument_after_get_top_holdings(c.heap[c.ref], constituents)
    /\ UNCHANGED <<available_symbols, tolerance, source, instance, prices_df, loads, built,
                   returned, threads, upVars>>

NextCalculator == CallCalculateEtfPrices \/ CallGetLatestPrices \/ CallGetTopHoldings

SpecCalculator == InitCalculator /\ [][NextCalculator]_vars

KnownSymbols(df) == Range(df.columns) \ {DateColumn}

(* The sum the claims state: over the constituents with a known symbol, in *)
(* list order from the first, weight times the row's price of the symbol.  *)
RECURSIVE KnownContribution(_, _, _, _)
KnownContribution(cs, i, row, known) ==
    IF i = 0 THEN 0
    ELSE IF cs[i].name \in known
         THEN FAdd(KnownContribution(cs, i - 1, row, known), FMul(cs[i].weight, row[cs[i].name]))
         ELSE KnownContribution(cs, i - 1, row, known)

CachedTable == heap[prices_df[instance]]

\* C9: for every constituent list and every price table, calculate_etf_prices
\* gives for each table row etf_price = the sum, over the constituents whose
\* symbol is a known symbol, of weight times that symbol's price in the row:
\* an unknown symbol contributes nothing, a symbol listed k times k times.
C9_WeightedSumOfKnownSymbols ==
    result.op = "calculate_etf_prices" =>
        /\ ~result.out.raised
        /\ Len(result.out.points) = Len(CachedTable.rows)
        /\ \A k \in 1..Len(CachedTable.rows) :
              result.out.points[k].etf_price =
                  KnownContribution(constituents, Len(constituents), CachedTable.rows[k],
                                    KnownSymbols(CachedTable))

\* C10: for every constituent list (the empty list and lists made only of
\* unknown symbols included), calculate_etf_prices returns exactly one point
\* per row of the price table, carrying the table's dates in table order.
C10_OnePointPerRow ==
    result.op = "calculate_etf_prices" =>
        /\ ~result.out.raised
        /\ Len(result.out.points) = Len(CachedTable.rows)
        /\ \A k \in 1..Len(CachedTable.rows) :
              result.out.points[k].DATE = CachedTable.rows[k].DATE
        /\ IsAscending(result.out.points)

\* C9 outside the date column's name: for every constituent list in which no
\* symbol equals the date column's name, the points are the weighted sums.
C9_Aux_HoldsWithoutDateSymbol ==
    (\A i \in 1..Len(constituents) : constituents[i].name # DateColumn) =>
        C9_WeightedSumOfKnownSymbols

\* C10 outside the date column's name: for every constituent list in which no
\* symbol equals the date column's name, there is one point per table row.
C10_Aux_HoldsWithoutDateSymbol ==
    (\A i \in 1..Len(constituents) : constituents[i].name # DateColumn) =>
        C10_OnePointPerRow

(* The rows of the price file that carry its most recent date.              *)
MostRecent(rows) == {k \in 1..Len(rows) : \A j \in 1..Len(rows) : rows[j].DATE <= rows[k].DATE}

NoDateSymbol == \A i \in 1..Len(constituents) : constituents[i].name # DateColumn
FiniteWeights == \A i \in 1..Len(constituents) : ~IsNaN(constituents[i].weight)

\* C11: get_latest_prices returns exactly one entry per constituent, in input
\* order, with the symbol and the weight unchanged; latest_price is the
\* symbol's price at the most recent date of the price source, whatever the
\* row order of the source file, for a known symbol and 0.0 otherwise.
C11_LatestPricePerConstituent ==
    result.op = "get_latest_prices" =>
        /\ ~result.out.raised
        /\ Len(result.out.entries) = Len(constituents)
        /\ \A i \in 1..Len(constituents) :
              LET e == result.out.entries[i]
                  c == constituents[i]
              IN /\ e.symbol = c.name
                 /\ e.weight = c.weight
                 /\ IF c.name \in KnownSymbols(CachedTable)
                    THEN \E k \in MostRecent(source.rows) :
                            e.latest_price = source.rows[k][c.name]
                    ELSE e.latest_price = 0

\* C11 on a price source with at least one row and for constituent lists in
\* which no symbol equals the date column's name.
C11_Aux_HoldsOnRowsWithoutDateSymbol ==
    (NoDateSymbol /\ Len(source.rows) > 0) => C11_LatestPricePerConstituent

(* The holding the claims state for a constituent: its symbol and weight,  *)
(* the price of the symbol in the table's last row (0.0 for a symbol that  *)
(* is not known), and their product.                                       *)
StatedHolding(c) ==
    LET price == IF c.name \in KnownSymbols(CachedTable)
                 THEN CachedTable.rows[Len(CachedTable.rows)][c.name]
                 ELSE 0
    IN [symbol |-> c.name, weight |-> c.weight, latest_price |-> price,
        holding_value |-> FMul(c.weight, price)]

Injections(n, m) == {f \in [1..n -> 1..m] : \A i, j \in 1..n : i # j => f[i] # f[j]}

Min(a, b) == IF a < b THEN a ELSE b

\* C12: for every constituent list and every top_n >= 0, get_top_holdings
\* returns exactly min(top_n, number of constituents) entries, ordered by
\* non-increasing holding_value, each entry one of the input constituents
\* with holding_value = weight x latest_price, and no constituent left out
\* has a holding_value greater than an entry of the result.
C12_TopHoldingsAreTheLargest ==
    result.op = "get_top_holdings" =>
        /\ ~result.out.raised
        /\ LET e == result.out.entries
               n == Len(constituents)
           IN /\ Len(e) = Min(result.top_n, n)
              /\ \A i, j \in 1..Len(e) : i < j => ~FLt(e[i].holding_value, e[j].holding_value)
              /\ \E f \in Injections(Len(e), n) :
                    /\ \A i \in 1..Len(e) : e[i] = StatedHolding(constituents[f[i]])
                    /\ \A j \in (1..n) \ Range(f) : \A i \in 1..Len(e) :
                          ~FGt(StatedHolding(constituents[j]).holding_value,
                               e[i].holding_value)

\* C12 on a price table with at least one row, for constituent lists with
\* finite weights in which no symbol equals the date column's name.
C12_Aux_HoldsOnRowsWithoutDateSymbol ==
    (NoDateSymbol /\ FiniteWeights /\ Len(CachedTable.rows) > 0) =>
        C12_TopHoldingsAreTheLargest

\* C12 for NaN weights: with a table of at least one row and no symbol equal
\* to the date column's name, the result is the stated one.
C12_Aux_NaNWeights ==
    (NoDateSymbol /\ Len(CachedTable.rows) > 0) => C12_TopHoldingsAreTheLargest

(***************************************************************************)
(* ETFDataParser.parse_csv_file.  The uploaded file is given by what       *)
(* pd.read_csv makes of it: whether it parses, the header row and the data *)
(* rows.  A header name is [stem, suffix]: the name is the stem followed   *)
(* by one ".N" part per number of the suffix, so "name" has the empty      *)
(* suffix and "weight.1" the suffix <<1>>.  pandas renames the k-th repeat *)
(* of a header name by appending ".k" to it.  A weight cell is a number,   *)
(* blank, one of the tokens pandas reads as missing ("N/A", "null", ...:   *)
(* the cell becomes NaN like a blank one) or another text token, which     *)
(* float() rejects with a ValueError quoting the token.                    *)
(***************************************************************************)
Col(s) == [stem |-> s, suffix |-> <<>>]

RepeatsBefore(header, i) == Cardinality({j \in 1..(i - 1) : header[j] = header[i]})

pandas_columns(header) ==
    [i \in 1..Len(header) |->
        IF RepeatsBefore(header, i) = 0 THEN header[i]
        ELSE [stem |-> header[i].stem,
              suffix |-> Append(header[i].suffix, RepeatsBefore(header, i))]]

(* '.' in str(col) and str(col).split('.')[-1].isdigit()                    *)
is_duplicate_indicator(col) == Len(col.suffix) > 0

(* col.rsplit('.', 1)[0]                                                    *)
original_name(col) == [stem |-> col.stem, suffix |-> SubSeq(col.suffix, 1, Len(col.suffix) - 1)]

required_columns_name_only == {Col("name")}
required_columns == {Col("name"), Col("weight")}

(* A raise at a step of parse_csv_file: the steps begun and the error.      *)
ParseError(step, e) == [raised |-> TRUE, ran |-> step, error |-> e]

(* float(constituent['weight']) over the rows in order: the ValueError of   *)
(* the first cell it rejects, which quotes the cell's text.                 *)
first_rejected(rows) ==
    LET bad == {i \in 1..Len(rows) : rows[i].weight.kind = "text"}
    IN IF bad = {} THEN 0 ELSE CHOOSE i \in bad : \A j \in bad : i <= j

cell_value(cell) == IF cell.kind = "number" THEN cell.value ELSE NaN

ParseSteps == 6

parse_csv_file(file) ==
    IF ~file.parses THEN ParseError(1, [kind |-> "invalid_csv"])
    ELSE LET columns == pandas_columns(file.columns)
             duplicate_indicators == SelectSeq(columns, is_duplicate_indicator)
             actual_columns == Range(columns)
         IN IF duplicate_indicators # <<>>
            THEN ParseError(2, [kind |-> "duplicate_columns",
                                names |-> {original_name(duplicate_indicators[i]) :
                                              i \in 1..Len(duplicate_indicators)}])
            ELSE IF ~(required_columns \subseteq actual_columns)
            THEN ParseError(3, [kind |-> "missing_columns",
                                required |-> {Col("name"), Col("weight")},
                                found |-> actual_columns])
            ELSE IF Len(file.rows) = 0 THEN ParseError(4, [kind |-> "empty"])
            ELSE IF first_rejected(file.rows) # 0
            THEN ParseError(ParseSteps,
                            [kind |-> "non_numeric_weight",
                             raw |-> file.rows[first_rejected(file.rows)].weight.raw])
            ELSE [raised |-> FALSE, ran |-> ParseSteps,
                  constituents |-> [i \in 1..Len(file.rows) |->
                                      [name |-> file.rows[i].name,
                                       weight |-> cell_value(file.rows[i].weight)]]]

(***************************************************************************)
(* SpecParser: one call of parse_csv_file on an uploaded file.             *)
(***************************************************************************)
HeaderNames ==
    {Col("name"), Col("weight"), Col("Name"), Col("sector"), [stem |-> "weight", suffix |-> <<1>>]}
MaxColumns == 3
ParserHeaders == UNION {[1..k -> HeaderNames] : k \in 1..MaxColumns}

ParserCells ==
    {[kind |-> "number", value |-> v, raw |-> ""] : v \in {400, 600}}
    \cup {[kind |-> "blank", value |-> NaN, raw |-> ""]}
    \cup {[kind |-> "na_token", value |-> NaN, raw |-> "N/A"]}
    \cup {[kind |-> "text", value |-> NaN, raw |-> t] : t \in {"high", "low"}}

ParserRows == SeqsUpTo([name : {"A", "B"}, weight : ParserCells, sector : {"Tech"}], MaxLen)

ParserUploads == [parses : BOOLEAN, columns : ParserHeaders, rows : ParserRows]

InitParser ==
    /\ upload \in ParserUploads
    /\ result = NoResult
    /\ pc = "idle"
    /\ validation = NoValidation
    /\ calls = <<>>
    /\ response = NoResponse
    /\ config = DefaultTolerance
    /\ LoaderIdle
    /\ ValidatorIdle

CallParseCsvFile ==
    /\ result = NoResult
    /\ result' = [op |-> "parse_csv_file", out |-> parse_csv_file(upload)]
    /\ UNCHANGED <<valVars, dlVars, threads, upVars>>

NextParser == CallParseCsvFile

SpecParser == InitParser /\ [][NextParser]_vars

(***************************************************************************)
(* SpecUpload: one request to create_etf_analysis, statement by statement, *)
(* in a process whose DataLoader has loaded a price table.  The uploaded   *)
(* file is given as pandas reads it: whether it parses, its header, and    *)
(* per data row the name cell and the weight cell, as for parse_csv_file.  *)
(* A name cell is a string or blank (pandas gives the float NaN: NanName). *)
(***************************************************************************)
RouterTolerance == 5
RouterTopN == 5

(* config.py: float(os.getenv('ETF_WEIGHT_TOLERANCE', '0.005'))             *)
ConfiguredTolerances == {0, DefaultTolerance, 20}

UploadNames == {"A", "B", "Z", NanName}
UploadCells ==
    {[kind |-> "number", value |-> v, raw |-> ""] : v \in {-100, 495, 500, 505}}
    \cup {[kind |-> "blank", value |-> NaN, raw |-> ""]}
    \cup {[kind |-> "text", value |-> NaN, raw |-> "high"]}
UploadHeaders ==
    {<<Col("name"), Col("weight")>>,
     <<Col("name"), Col("weight"), Col("sector")>>,
     <<Col("symbol"), Col("percentage")>>,
     <<Col("name"), Col("weight"), Col("name")>>,
     <<Col("name"), Col("weight"), [stem |-> "weight", suffix |-> <<1>>]>>}
Uploads ==
    [parses : BOOLEAN, columns : UploadHeaders,
     rows : SeqsUpTo([name : UploadNames, weight : UploadCells], MaxLen)]

TwoDayTable ==
    [columns |-> <<"DATE", "A", "B">>, parsed |-> TRUE,
     rows |-> <<[DATE |-> 1, A |-> 100, B |-> 50], [DATE |-> 2, A |-> 104, B |-> 50]>>]
EmptyTable == [columns |-> <<"DATE", "A", "B">>, parsed |-> TRUE, rows |-> <<>>]

InitUpload ==
    /\ \E df \in {TwoDayTable, EmptyTable} : LoaderLoadedWith(df)
    /\ upload \in Uploads
    /\ config \in ConfiguredTolerances
    /\ pc = "read_csv"
    /\ validation = NoValidation
    /\ calls = <<>>
    /\ response = NoResponse
    /\ constituents = <<>>
    /\ available_symbols = <<>>
    /\ tolerance = RouterTolerance
    /\ result = NoResult

(* lines 98-99: f"Internal server error: {str(e)}", modelled as the fixed   *)
(* prefix and the exception's text.                                         *)
InternalServerError(e) == [message |-> "Internal server error", text |-> e]

(* str(e) of the TypeError of ', '.join over a name that is not a str       *)
JoinTypeErrorText == "sequence item 0: expected str instance, float found"

Respond(status, detail) ==
    /\ response' = [status |-> status, detail |-> detail]
    /\ pc' = "done"

\* etf_router.py lines 40-44: pd.read_csv of the upload
ReadCsv ==
    /\ pc = "read_csv"
    /\ IF ~upload.parses THEN Respond(400, "Invalid CSV format")
       ELSE pc' = "columns" /\ UNCHANGED response
    /\ UNCHANGED <<valVars, dlVars, threads, result, upload, config, validation, calls>>

\* lines 47-51: the required columns
CheckColumns ==
    /\ pc = "columns"
    /\ IF \/ Col("name") \notin Range(pandas_columns(upload.columns))
          \/ Col("weight") \notin Range(pandas_columns(upload.columns))
       THEN Respond(400, "CSV must contain 'name' and 'weight' columns")
       ELSE pc' = "to_float" /\ UNCHANGED response
    /\ UNCHANGED <<valVars, dlVars, threads, result, upload, config, validation, calls>>

\* lines 54-61: to_dict('records') and float() of every weight
ConvertWeights ==
    /\ pc = "to_float"
    /\ IF first_rejected(upload.rows) # 0
       THEN /\ Respond(400, "Weights must be numeric values")
            /\ UNCHANGED constituents
       ELSE /\ constituents' = [i \in 1..Len(upload.rows) |->
                                  [name |-> upload.rows[i].name,
                                   weight |-> cell_value(upload.rows[i].weight)]]
            /\ pc' = "validate"
            /\ UNCHANGED response
    /\ UNCHANGED <<available_symbols, tolerance, dlVars, threads, result, upload, config, validation, calls>>

\* lines 64-70: get_available_symbols and validate_all
Validate ==
    /\ pc = "validate"
    /\ LET symbols == symbol_columns(heap[prices_df[instance]])
           v == validate_all(constituents, symbols, tolerance)
       IN /\ available_symbols' = symbols
          /\ validation' = [done |-> TRUE, list |-> constituents, out |-> v]
          /\ IF v.raised THEN Respond(500, InternalServerError(JoinTypeErrorText))
             ELSE IF ~v.ok THEN Respond(400, v.errors)
             ELSE pc' = "latest" /\ UNCHANGED response
    /\ UNCHANGED <<constituents, tolerance, dlVars, threads, result, upload, config, calls>>

Invoke(op, out, next) ==
    /\ calls' = Append(calls, [op |-> op, list |-> constituents])
    /\ result' = [op |-> op, out |-> out]
    /\ IF out.raised THEN Respond(500, InternalServerError(out.error))
       ELSE pc' = next /\ UNCHANGED response

\* line 74: calculator.get_latest_prices(constituents)
Latest ==
    /\ pc = "latest"
    /\ LET c == df_copy(heap, prices_df[instance])
       IN /\ heap' = c.heap
          /\ Invoke("get_latest_prices", get_latest_prices(c.heap[c.ref], constituents), "series")
    /\ UNCHANGED <<valVars, source, instance, prices_df, loads, built, returned, threads,
                   upload, config, validation>>

\* lines 77-84: calculator.calculate_etf_prices(constituents) and the time series
Series ==
    /\ pc = "series"
    /\ LET c == df_copy(heap, prices_df[instance])
       IN /\ heap' = c.heap
          /\ Invoke("calculate_etf_prices", calculate_etf_prices(c.heap[c.ref], constituents), "top")
    /\ UNCHANGED <<valVars, source, instance, prices_df, loads, built, returned, threads,
                   upload, config, validation>>

\* lines 87-94: calculator.get_top_holdings(constituents, top_n=5) and the response
Top ==
    /\ pc = "top"
    /\ LET c == df_copy(heap, prices_df[instance])
           out == get_top_holdings(c.heap[c.ref], constituents, RouterTopN)
       IN /\ heap' = c.heap
          /\ calls' = Append(calls, [op |-> "get_top_holdings", list |-> constituents])
          /\ result' = [op |-> "get_top_holdings", out |-> out]
          /\ constituents' = argument_after_get_top_holdings(c.heap[c.ref], constituents)
          /\ IF out.raised THEN Respond(500, InternalServerError(out.error))
             ELSE Respond(200, "success")
    /\ UNCHANGED <<available_symbols, tolerance, source, instance, prices_df, loads, built,
                   returned, threads, upload, config, validation>>

NextUpload == ReadCsv \/ CheckColumns \/ ConvertWeights \/ Validate \/ Latest \/ Series \/ Top

SpecUpload == InitUpload /\ [][NextUpload]_vars

StructuralChecksPassed ==
    /\ upload.parses
    /\ Col("name") \in Range(pandas_columns(upload.columns))
    /\ Col("weight") \in Range(pandas_columns(upload.columns))
    /\ \A i \in 1..Len(upload.rows) : upload.rows[i].weight.kind # "text"

ValidatedOk == validation.done /\ ~validation.out.raised /\ validation.out.ok

\* C4, first half: no calculator operation is invoked unless the structural
\* checks have passed and validate_all has returned ok = true for the same
\* constituent list.
C4_Aux_CalculationOnlyAfterValidation ==
    \A i \in 1..Len(calls) :
        /\ StructuralChecksPassed
        /\ ValidatedOk
        /\ calls[i].list = validation.list

\* C4: in the upload handler no calculator operation is invoked unless the
\* structural checks have passed and validate_all has returned ok = true for
\* the same constituent list; every parse or validation failure ends the
\* request with a client error before any calculation.
C4_FailuresEndInClientError ==
    /\ C4_Aux_CalculationOnlyAfterValidation
    /\ (pc = "done" /\ (~StructuralChecksPassed \/ ~ValidatedOk)) =>
           (response.status = 400 /\ calls = <<>>)

(***************************************************************************)
(* SpecValidator: one ETFValidator object, called on typed constituent     *)
(* lists (every symbol a str, every weight a float, NaN included).         *)
(***************************************************************************)
ValidatorSymbols == {"A", "B", "Z"}
ValidatorWeights == {NaN, -100, 0, 495, 500, 505, 1200}
Tolerances == {0, 5, 1000}
(* The lists of known symbols: two short ones and one of more than          *)
(* SampleSize symbols, none of them in sorted order.                        *)
AvailableLists ==
    {<<"B", "A">>, <<"A">>, <<"K", "J", "I", "H", "G", "F", "E", "D", "C", "B", "A">>}

(* Longer lists of two symbols and one weight: a symbol occurring three     *)
(* times, two symbols occurring twice each.                                 *)
RepeatInputs == [1..(MaxLen + 2) -> [name : {"A", "Z"}, weight : {500}]]

ValidatorInputs ==
    SeqsUpTo([name : ValidatorSymbols, weight : ValidatorWeights], MaxLen) \cup RepeatInputs

InitValidator ==
    /\ constituents \in ValidatorInputs
    /\ available_symbols \in AvailableLists
    /\ tolerance \in Tolerances
    /\ result = NoResult
    /\ LoaderIdle
    /\ UploadIdle

CallValidateAll ==
    /\ result = NoResult
    /\ result' = [op |-> "validate_all",
                  out |-> validate_all(constituents, available_symbols, tolerance)]
    /\ UNCHANGED <<valVars, dlVars, threads, upVars>>

CallValidateWeightsSum ==
    /\ result = NoResult
    /\ result' = [op |-> "validate_weights_sum",
                  out |-> validate_weights_sum(constituents, tolerance)]
    /\ UNCHANGED <<valVars, dlVars, threads, upVars>>

CallValidateWeightRanges ==
    /\ result = NoResult
    /\ result' = [op |-> "validate_weight_ranges", out |-> validate_weight_ranges(constituents)]
    /\ UNCHANGED <<valVars, dlVars, threads, upVars>>

CallValidateNoDuplicates ==
    /\ result = NoResult
    /\ result' = [op |-> "validate_no_duplicates", out |-> validate_no_duplicates(constituents)]
    /\ UNCHANGED <<valVars, dlVars, threads, upVars>>

CallValidateSymbolsExist ==
    /\ result = NoResult
    /\ result' = [op |-> "validate_symbols_exist",
                  out |-> validate_symbols_exist(constituents, available_symbols)]
    /\ UNCHANGED <<valVars, dlVars, threads, upVars>>

NextValidator ==
    \/ CallValidateAll
    \/ CallValidateWeightsSum
    \/ CallValidateWeightRanges
    \/ CallValidateNoDuplicates
    \/ CallValidateSymbolsExist

SpecValidator == InitValidator /\ [][NextValidator]_vars

FailMsg(r) == IF r.valid THEN <<>> ELSE <<r.msg>>

\* C1: for every non-empty constituent list, validate_all returns exactly the
\* messages of the failing checks among no_duplicates, weight_ranges,
\* weights_sum, symbols_exist, one per failing check and in that order, and
\* the flag is true exactly when that list is empty.
C1_EveryFailingCheckReported ==
    (result.op = "validate_all" /\ Len(constituents) > 0) =>
        /\ ~result.out.raised
        /\ result.out.errors =
               FailMsg(validate_no_duplicates(constituents))
               \o FailMsg(validate_weight_ranges(constituents))
               \o FailMsg(validate_weights_sum(constituents, tolerance))
               \o FailMsg(validate_symbols_exist(constituents, available_symbols))
        /\ result.out.ok = (result.out.errors = <<>>)

C1_Witness_FourErrors ==
    /\ result.op = "validate_all"
    /\ Len(constituents) > 0
    /\ Len(result.out.errors) = 4
    /\ [i \in 1..4 |-> result.out.errors[i].check]
           = <<"no_duplicates", "weight_ranges", "weights_sum", "symbols_exist">>

(***************************************************************************)
(* The hypotheses of C2, stated on the list itself (plain integer          *)
(* arithmetic over finite weights), not through the validator's checks.    *)
(***************************************************************************)
RECURSIVE PlainSum(_)
PlainSum(cs) == IF cs = <<>> THEN 0 ELSE Head(cs).weight + PlainSum(Tail(cs))

AllKnown(cs, avail) == \A i \in 1..Len(cs) : \E j \in 1..Len(avail) : avail[j] = cs[i].name
NoRepeat(cs) == \A i, j \in 1..Len(cs) : i # j => cs[i].name # cs[j].name
AllInUnitRange(cs) == \A i \in 1..Len(cs) : ~IsNaN(cs[i].weight) /\ 0 <= cs[i].weight /\ cs[i].weight <= One
SumWithin(cs, tol) == PlainSum(cs) - One <= tol /\ One - PlainSum(cs) <= tol

WellFormed(cs, avail, tol) ==
    AllKnown(cs, avail) /\ NoRepeat(cs) /\ AllInUnitRange(cs) /\ SumWithin(cs, tol)

\* C2 as stated: for every tolerance >= 0 and every constituent list of any
\* length (the empty list included) with known symbols, no repeated symbol,
\* weights in [0,1] and a weight sum within the tolerance of 1.0,
\* validate_all returns ok = true with no errors.
C2_Original_AnyLength ==
    (result.op = "validate_all" /\ WellFormed(constituents, available_symbols, tolerance)) =>
        (~result.out.raised /\ result.out.ok /\ result.out.errors = <<>>)

\* C2 amended: the same for every NON-EMPTY constituent list; the empty
\* list is rejected whatever the tolerance.
C2_WellFormedNonEmptyAccepted ==
    (/\ result.op = "validate_all"
     /\ Len(constituents) > 0
     /\ WellFormed(constituents, available_symbols, tolerance)) =>
        (~result.out.raised /\ result.out.ok /\ result.out.errors = <<>>)

C2_Witness_AcceptedAtToleranceEdge ==
    /\ result.op = "validate_all"
    /\ Len(constituents) > 0
    /\ WellFormed(constituents, available_symbols, tolerance)
    /\ PlainSum(constituents) - One = tolerance
    /\ tolerance > 0
    /\ result.out.ok

HasNaNWeight(cs) == \E i \in 1..Len(cs) : IsNaN(cs[i].weight)

\* C3: for every constituent list in which some weight is NaN,
\* validate_weights_sum reports failure for every tolerance, and validate_all
\* returns ok = false.
C3_NaNWeightRejected ==
    HasNaNWeight(constituents) =>
        /\ result.op = "validate_weights_sum" => ~result.out.valid
        /\ result.op = "validate_all" => ~result.out.ok

\* C13: for the empty constituent list, validate_all returns ok = false with
\* exactly one error, the non-empty message, and runs none of the duplicate,
\* range, sum and symbol checks, whatever the tolerance and the known symbols.
C13_EmptyListStopsValidation ==
    (result.op = "validate_all" /\ Len(constituents) = 0) =>
        /\ ~result.out.raised
        /\ ~result.out.ok
        /\ result.out.errors = <<[check |-> "non_empty"]>>
        /\ result.out.ran = <<"non_empty">>

C13_Witness_EmptyListWithinTolerance ==
    /\ result.op = "validate_all"
    /\ Len(constituents) = 0
    /\ tolerance >= One
    /\ Len(result.out.errors) = 1

(***************************************************************************)
(* The single checks, stated on the list itself.                           *)
(***************************************************************************)
Deviation(cs) == IF PlainSum(cs) >= One THEN PlainSum(cs) - One ELSE One - PlainSum(cs)

\* C14: for every constituent list with finite weights and every tolerance
\* >= 0, validate_weights_sum returns (True, "") exactly when the absolute
\* difference between the weight sum and 1.0 is at most the tolerance, a
\* deviation equal to the tolerance included, and otherwise returns False
\* with a message carrying the computed total and the tolerance.
C14_SumWithinToleranceAccepted ==
    (result.op = "validate_weights_sum" /\ ~HasNaNWeight(constituents)) =>
        /\ ~result.out.raised
        /\ result.out.valid = (Deviation(constituents) <= tolerance)
        /\ result.out.valid => result.out.msg = EmptyMsg
        /\ ~result.out.valid =>
              result.out.msg = [check |-> "weights_sum", total |-> PlainSum(constituents),
                                tolerance |-> tolerance]

C14_Witness_BelowOneAtToleranceEdge ==
    /\ result.op = "validate_weights_sum"
    /\ ~HasNaNWeight(constituents)
    /\ One - PlainSum(constituents) = tolerance
    /\ tolerance > 0
    /\ result.out.valid

(* The constituents out of [0,1], in input order, with the tag of their    *)
(* violation.                                                              *)
Offending(cs) ==
    LET idx == {i \in 1..Len(cs) : ~IsNaN(cs[i].weight) /\ (cs[i].weight < 0 \/ cs[i].weight > One)}
        nth(k) == CHOOSE i \in idx : Cardinality({j \in idx : j < i}) = k - 1
    IN [k \in 1..Cardinality(idx) |->
          [symbol |-> cs[nth(k)].name, weight |-> cs[nth(k)].weight,
           tag |-> IF cs[nth(k)].weight < 0 THEN "negative" ELSE "exceeds 100%"]]

Occurrences(cs, symbol) == Cardinality({i \in 1..Len(cs) : cs[i].name = symbol})
Repeated(cs) == {cs[i].name : i \in {j \in 1..Len(cs) : Occurrences(cs, cs[j].name) > 1}}
StrictlySorted(s) == \A i \in 1..(Len(s) - 1) : Rank(s[i]) < Rank(s[i + 1])

\* C16: validate_no_duplicates fails exactly when some symbol occurs more
\* than once in the list; on failure the message names each duplicated
\* symbol exactly once, in sorted order, and no symbol that occurs once.
C16_DuplicatesNamedOnceSorted ==
    result.op = "validate_no_duplicates" =>
        /\ ~result.out.raised
        /\ result.out.valid = (Repeated(constituents) = {})
        /\ result.out.valid => result.out.msg = EmptyMsg
        /\ ~result.out.valid =>
              /\ result.out.msg.check = "no_duplicates"
              /\ Range(result.out.msg.dup_list) = Repeated(constituents)
              /\ StrictlySorted(result.out.msg.dup_list)

C16_Witness_TwoDuplicatedSymbols ==
    /\ result.op = "validate_no_duplicates"
    /\ Len(constituents) > 0
    /\ ~result.out.valid
    /\ constituents[1].name = "Z"
    /\ Occurrences(constituents, "Z") = 2
    /\ Occurrences(constituents, "A") = 2
    /\ result.out.msg.dup_list = <<"A", "Z">>

C16_Witness_TripleNamedOnce ==
    /\ result.op = "validate_no_duplicates"
    /\ Occurrences(constituents, "A") = 3
    /\ Occurrences(constituents, "Z") = 1
    /\ ~result.out.valid
    /\ result.out.msg.dup_list = <<"A">>

(* The constituent symbols absent from the available ones, in input order. *)
Absent(cs, avail) ==
    LET idx == {i \in 1..Len(cs) : cs[i].name \notin Range(avail)}
        nth(k) == CHOOSE i \in idx : Cardinality({j \in idx : j < i}) = k - 1
    IN [k \in 1..Cardinality(idx) |-> cs[nth(k)].name]

\* C17: validate_symbols_exist fails exactly when some constituent symbol is
\* absent from available_symbols; the returned missing list is the
\* subsequence of absent constituent symbols in input order, the message
\* names every one of them, and the sample of available symbols in the
\* message is the first at most 10 of them in sorted order.
C17_MissingSymbolsAndSortedSample ==
    result.op = "validate_symbols_exist" =>
        /\ ~result.out.raised
        /\ result.out.valid = (Absent(constituents, available_symbols) = <<>>)
        /\ result.out.missing = Absent(constituents, available_symbols)
        /\ result.out.valid => result.out.msg = EmptyMsg
        /\ ~result.out.valid =>
              LET sample == result.out.msg.sample
              IN /\ result.out.msg.check = "symbols_exist"
                 /\ result.out.msg.missing = Absent(constituents, available_symbols)
                 /\ Len(sample) = Min(SampleSize, Len(available_symbols))
                 /\ StrictlySorted(sample)
                 /\ Range(sample) \subseteq Range(available_symbols)
                 /\ \A x \in Range(available_symbols) \ Range(sample) :
                       \A y \in Range(sample) : Rank(y) < Rank(x)

C17_Witness_SampleTruncated ==
    /\ result.op = "validate_symbols_exist"
    /\ Len(available_symbols) > SampleSize
    /\ ~result.out.valid
    /\ Len(result.out.missing) = 2
    /\ Len(result.out.msg.sample) = SampleSize

(* The header passes the duplicate-header check: no name occurs twice and  *)
(* none ends in a ".N" part.                                               *)
PassesDuplicateCheck(header) ==
    \A i \in 1..Len(header) : header[i].suffix = <<>> /\ RepeatsBefore(header, i) = 0

HasRequiredColumns(header) == {Col("name"), Col("weight")} \subseteq Range(header)

\* C18: parse_csv_file fails with the missing-columns error exactly when the
\* header set, after the duplicate-header check, does not contain both
\* 'name' and 'weight' with exact case; the error names both required
\* columns and the columns found, and a header set containing both is not
\* rejected for missing columns however many extra columns it has.
C18_MissingColumnsExactly ==
    (/\ result.op = "parse_csv_file"
     /\ upload.parses
     /\ PassesDuplicateCheck(upload.columns)) =>
        /\ (result.out.raised /\ result.out.error.kind = "missing_columns")
               <=> ~HasRequiredColumns(upload.columns)
        /\ ~HasRequiredColumns(upload.columns) =>
               /\ result.out.error.required = {Col("name"), Col("weight")}
               /\ result.out.error.found = Range(upload.columns)

C18_Witness_WrongCaseHeader ==
    /\ result.op = "parse_csv_file"
    /\ upload.parses
    /\ upload.columns = <<Col("Name"), Col("weight"), Col("sector")>>
    /\ result.out.raised
    /\ result.out.error.kind = "missing_columns"

StructurallySound ==
    /\ upload.parses
    /\ PassesDuplicateCheck(upload.columns)
    /\ HasRequiredColumns(upload.columns)
    /\ Len(upload.rows) > 0

(* The rows whose weight is a non-numeric, non-blank token.                *)
NonNumericRows == {i \in 1..Len(upload.rows) : upload.rows[i].weight.kind \in {"text", "na_token"}}
FirstOf(S) == CHOOSE i \in S : \A j \in S : i <= j

\* C19: for an input that passes the table, duplicate-header,
\* required-column and non-empty checks, parse_csv_file returns one
\* {name, weight} record per data row in input row order, extra columns
\* dropped and a blank weight accepted as NaN; if any weight is a
\* non-numeric, non-blank token the call fails, returns no records, and the
\* error identifies the first such row by its row index and raw value.
C19_RecordsOrFirstBadRow ==
    (result.op = "parse_csv_file" /\ StructurallySound) =>
        IF NonNumericRows = {}
        THEN /\ ~result.out.raised
             /\ result.out.constituents =
                    [i \in 1..Len(upload.rows) |->
                        [name |-> upload.rows[i].name,
                         weight |-> IF upload.rows[i].weight.kind = "blank" THEN NaN
                                    ELSE upload.rows[i].weight.value]]
        ELSE /\ result.out.raised
             /\ result.out.error.kind = "non_numeric_weight"
             /\ result.out.error.raw = upload.rows[FirstOf(NonNumericRows)].weight.raw
             /\ "row" \in DOMAIN result.out.error
             /\ result.out.error.row = FirstOf(NonNumericRows)

\* C19 for numbers and blanks: when every weight cell is a number or blank,
\* the records are returned, one per row in row order.
C19_Aux_RecordsForNumbersAndBlanks ==
    (\A i \in 1..Len(upload.rows) : upload.rows[i].weight.kind \in {"number", "blank"}) =>
        C19_RecordsOrFirstBadRow

\* C19 without the row index: when some weight cell is a non-numeric,
\* non-blank token, the call fails with the non-numeric error.
C19_Aux_EveryTokenRejected ==
    (result.op = "parse_csv_file" /\ StructurallySound /\ NonNumericRows # {}) =>
        (result.out.raised /\ result.out.error.kind = "non_numeric_weight")

\* C19 for the tokens float() rejects: the call fails and the error quotes
\* the raw value of the first such row.
C19_Aux_RejectedTokenQuoted ==
    (/\ result.op = "parse_csv_file"
     /\ StructurallySound
     /\ \E i \in 1..Len(upload.rows) : upload.rows[i].weight.kind = "text") =>
        /\ result.out.raised
        /\ result.out.error.kind = "non_numeric_weight"
        /\ \E i \in 1..Len(upload.rows) :
              /\ upload.rows[i].weight.kind = "text"
              /\ \A j \in 1..(i - 1) : upload.rows[j].weight.kind # "text"
              /\ result.out.error.raw = upload.rows[i].weight.raw

(* In the upload handler: every check of validate_all other than the sum   *)
(* check passes for the validated list.                                    *)
OtherChecksPass ==
    /\ validation.done
    /\ ~validation.out.raised
    /\ Len(validation.list) > 0
    /\ NoRepeat(validation.list)
    /\ AllInUnitRange(validation.list)
    /\ AllKnown(validation.list, available_symbols)

\* C20: the validator of the upload path is constructed with the externally
\* configured tolerance: for every configured value T, an upload that passes
\* all other checks is accepted exactly when its weight sum deviates from 1.0
\* by at most T.
C20_ConfiguredToleranceDecides ==
    OtherChecksPass => (validation.out.ok <=> Deviation(validation.list) <= config)

\* C20 for the value written in the router: an upload that passes all other
\* checks is accepted exactly when its sum deviates by at most 0.005.
C20_Aux_RouterToleranceDecides ==
    OtherChecksPass => (validation.out.ok <=> Deviation(validation.list) <= RouterTolerance)

\* C22: the upload endpoint rejects with a client error, before validation
\* and calculation, every input that parse_csv_file rejects, and for every
\* input the parser accepts it validates and calculates over the same
\* ordered (name, weight) list that parse_csv_file returns.
C22_HandlerAgreesWithParser ==
    LET parsed == parse_csv_file(upload)
    IN IF parsed.raised
       THEN /\ ~validation.done
            /\ calls = <<>>
            /\ pc = "done" => response.status = 400
       ELSE /\ validation.done => validation.list = parsed.constituents
            /\ \A i \in 1..Len(calls) : calls[i].list = parsed.constituents

\* C22 for the inputs the parser accepts: the handler validates and
\* calculates over the list parse_csv_file returns.
C22_Aux_AcceptedInputsSameList ==
    ~parse_csv_file(upload).raised => C22_HandlerAgreesWithParser

\* C22 for a repeated header name: an upload whose header repeats a column
\* name is never validated.
C22_Aux_RepeatedHeaderRejected ==
    (upload.parses /\ \E i \in 1..Len(upload.columns) : RepeatsBefore(upload.columns, i) > 0) =>
        ~validation.done

(* The header names that occur more than once in the header row.           *)
RepeatedHeaders(header) == {header[i] : i \in {j \in 1..Len(header) : RepeatsBefore(header, j) > 0}}

IsDuplicateError(out) == out.raised /\ out.error.kind = "duplicate_columns"

\* C23: parse_csv_file raises the duplicate-columns error if and only if some
\* header name occurs more than once in the input header row, and the error
\* names the repeated headers; an input whose header names are all distinct
\* is never rejected as having duplicate columns, whatever the extra column
\* names are.
C23_DuplicateErrorIffRepeatedHeader ==
    (result.op = "parse_csv_file" /\ upload.parses) =>
        /\ IsDuplicateError(result.out) <=> RepeatedHeaders(upload.columns) # {}
        /\ IsDuplicateError(result.out) => result.out.error.names = RepeatedHeaders(upload.columns)

\* C23, one direction: an input in which some header name occurs more than
\* once is rejected with the duplicate-columns error.
C23_Aux_RepeatedHeaderDetected ==
    (result.op = "parse_csv_file" /\ upload.parses /\ RepeatedHeaders(upload.columns) # {}) =>
        IsDuplicateError(result.out)

\* C23 for header names without a ".N" part: the error is raised exactly
\* when a name repeats, and names the repeated headers.
C23_Aux_HoldsForPlainNames ==
    (\A i \in 1..Len(upload.columns) : upload.columns[i].suffix = <<>>) =>
        C23_DuplicateErrorIffRepeatedHeader

(* The structural rules an input violates, by the error of their step, and *)
(* the step of each error in the fixed order.                              *)
ViolatedRules ==
    (IF ~upload.parses THEN {"invalid_csv"} ELSE {})
    \cup (IF RepeatedHeaders(upload.columns) # {} THEN {"duplicate_columns"} ELSE {})
    \cup (IF ~HasRequiredColumns(upload.columns) THEN {"missing_columns"} ELSE {})
    \cup (IF Len(upload.rows) = 0 THEN {"empty"} ELSE {})
    \cup (IF NonNumericRows # {} THEN {"non_numeric_weight"} ELSE {})

StepOrder == <<"invalid_csv", "duplicate_columns", "missing_columns", "empty", "non_numeric_weight">>
StepOf(kind) == CHOOSE i \in 1..Len(StepOrder) : StepOrder[i] = kind
EarliestViolated == CHOOSE k \in ViolatedRules : \A j \in ViolatedRules : StepOf(k) <= StepOf(j)

\* C24: when an input violates several structural rules at once,
\* parse_csv_file reports only the error of the earliest failing step in the
\* order unparseable table, duplicate headers, missing name/weight columns,
\* no data rows, non-numeric weight, and no later step runs after a failure.
C24_EarliestFailingStepReported ==
    (result.op = "parse_csv_file" /\ Cardinality(ViolatedRules) >= 2) =>
        /\ result.out.raised
        /\ result.out.error.kind = EarliestViolated
        /\ result.out.ran = StepOf(EarliestViolated)

\* C24 for header names without a ".N" part.
C24_Aux_HoldsForPlainNames ==
    (\A i \in 1..Len(upload.columns) : upload.columns[i].suffix = <<>>) =>
        C24_EarliestFailingStepReported

CalculatorOps == {"get_latest_prices", "calculate_etf_prices", "get_top_holdings"}

\* C25: get_latest_prices, calculate_etf_prices and get_top_holdings have no
\* error outcome: for every constituent list with numeric weights and any
\* symbol strings, a symbol equal to the date column's name included, and
\* every loaded price table of any number of rows, zero included, each call
\* returns a result.
C25_CalculatorNeverRaises ==
    result.op \in CalculatorOps => ~result.out.raised

\* C25 on a price table with at least one row, for constituent lists in
\* which no symbol equals the date column's name.
C25_Aux_HoldsOnRowsWithoutDateSymbol ==
    (NoDateSymbol /\ Len(CachedTable.rows) > 0) => C25_CalculatorNeverRaises

\* C25 for calculate_etf_prices on a table with zero rows and no symbol
\* equal to the date column's name: the call returns the empty series.
C25_Aux_SeriesOfEmptyTable ==
    (result.op = "calculate_etf_prices" /\ NoDateSymbol /\ Len(CachedTable.rows) = 0) =>
        (~result.out.raised /\ result.out.points = <<>>)

C27_GenericMessageAfterValidation ==
    (pc = "done" /\ ValidatedOk /\ response.status = 500) =>
        response.detail = [message |-> "Internal server error", text |-> ""]

\* C27 (the part that holds): a failure after validation has passed ends the
\* request with status 500 and a detail that starts with the fixed message.
C27_Aux_ServerErrorWithFixedPrefix ==
    (pc = "done" /\ ValidatedOk /\ result # NoResult /\ result.out.raised) =>
        /\ response.status = 500
        /\ response.detail.message = "Internal server error"

\* C28: for every tolerance >= 0 and every constituent list with finite
\* weights, validate_all returns ok = true only if the list is non-empty, no
\* symbol repeats, every weight lies in [0,1], the weight sum deviates from
\* 1.0 by at most the tolerance, and every symbol is in available_symbols.
C28_OkOnlyForSoundLists ==
    (/\ result.op = "validate_all"
     /\ ~HasNaNWeight(constituents)
     /\ ~result.out.raised
     /\ result.out.ok) =>
        /\ Len(constituents) > 0
        /\ NoRepeat(constituents)
        /\ \A i \in 1..Len(constituents) :
              0 <= constituents[i].weight /\ constituents[i].weight <= One
        /\ Deviation(constituents) <= tolerance
        /\ \A i \in 1..Len(constituents) : constituents[i].name \in Range(available_symbols)

C28_Witness_AcceptedAtTheTolerance ==
    /\ result.op = "validate_all"
    /\ ~HasNaNWeight(constituents)
    /\ ~result.out.raised
    /\ result.out.ok
    /\ Len(constituents) = 2
    /\ tolerance = DefaultTolerance
    /\ PlainSum(constituents) = One + DefaultTolerance

\* C28 in the upload handler: with finite weights the handler goes on to the
\* calculation only for a list that is sound under the handler's tolerance.
C28_Aux_HandlerCalculatesOnlySoundLists ==
    (calls # <<>> /\ ~HasNaNWeight(constituents)) =>
        /\ Len(constituents) > 0
        /\ NoRepeat(constituents)
        /\ \A i \in 1..Len(constituents) :
              0 <= constituents[i].weight /\ constituents[i].weight <= One
        /\ Deviation(constituents) <= RouterTolerance
        /\ \A i \in 1..Len(constituents) : constituents[i].name \in Range(available_symbols)

(* The total of the holding values of a list of holdings.                  *)
RECURSIVE TotalHoldingValue(_)
TotalHoldingValue(entries) ==
    IF entries = <<>> THEN 0
    ELSE FAdd(TotalHoldingValue(Tail(entries)), Head(entries).holding_value)

LastPointIsTotal(series, top) ==
    /\ ~series.raised
    /\ ~top.raised
    /\ series.points[Len(series.points)].etf_price = TotalHoldingValue(top.entries)

\* C29: for every constituent list and every price table with at least one
\* row, the last point of calculate_etf_prices equals the sum of
\* holding_value over all entries of get_top_holdings(constituents, top_n =
\* number of constituents): the index price at the most recent date is the
\* total of the holding values.
C29_LastPointIsTotalHoldingValue ==
    Len(CachedTable.rows) >= 1 =>
        /\ result.op = "calculate_etf_prices" =>
              LastPointIsTotal(result.out,
                               get_top_holdings(CachedTable, constituents, Len(constituents)))
        /\ (result.op = "get_top_holdings" /\ result.top_n = Len(constituents)) =>
              LastPointIsTotal(calculate_etf_prices(CachedTable, constituents), result.out)

\* C29 for finite weights and symbols other than the date column's name: the
\* last point is the total of the holding values.
C29_Aux_HoldsForFiniteWeightsWithoutDateSymbol ==
    (NoDateSymbol /\ FiniteWeights) => C29_LastPointIsTotalHoldingValue

\* C29 for symbols other than the date column's name, NaN weights included.
C29_Aux_NaNWeights ==
    NoDateSymbol => C29_LastPointIsTotalHoldingValue

(* A step in which validate_all or a calculator operation was called.       *)
OperationCalled ==
    \/ result' # result /\ result'.op \in CalculatorOps \cup {"validate_all"}
    \/ validation' # validation

C30_Aux_SameListSameResults ==
    (pc = "done" /\ response.status = 200) =>
        /\ \A i \in 1..Len(calls) : calls[i].list = validation.list
        /\ constituents = validation.list
        /\ result.out = get_top_holdings(CachedTable, validation.list, RouterTopN)

====
